---------------------------- MODULE Spec2Model ----------------------------
(***************************************************************************)
(* Model of the SiteNudge analytics dashboard (src/app.py): the metric     *)
(* aggregation (calculate_metrics), the delta calculator (calc_delta),     *)
(* the period windows and the render pass that ties them together.         *)
(*                                                                         *)
(* A pandas DataFrame is a record [cols, rows]: cols is the set of column  *)
(* names, rows a function from index labels to records over cols.  Every   *)
(* frame of the program is a boolean selection of the fetched frame, whose *)
(* index is 0..n-1, so the order of the rows is the order of the labels.   *)
(* A pandas Series is a function from index labels to values.  Floats are  *)
(* exact rationals [n, d] in lowest terms with d > 0.  An optional value   *)
(* is a sequence: <<>> is None and <<x>> is the value x.                   *)
(***************************************************************************)
EXTENDS Integers, Sequences, FiniteSets, TLC

VARIABLES
    mdf,        \* SpecMetrics: the frame handed to calculate_metrics
    mres,       \* SpecMetrics: what calculate_metrics did with mdf
    mop,        \* SpecMetrics: the last change of mdf
    dargs,      \* SpecDelta: the arguments <<current, prev>> of calc_delta
    dres,       \* SpecDelta: what calc_delta returned for dargs
    pargs,      \* SpecPeriod: the instant, earliest session and period token
    pres,       \* SpecPeriod: the windows resolved for pargs
    snapshot,   \* SpecRender: the rows fetch_all_sessions returned
    now,        \* SpecRender: datetime.now() of the last pass
    ui,         \* SpecRender: the values of the widgets
    out,        \* SpecRender: what the last pass computed and displayed
    budget,     \* SpecRender: how many widgets the user moves off their defaults
    adf,        \* SpecAb: the frame handed to calculate_ab_stats
    ares,       \* SpecAb: what calculate_ab_stats did with adf
    asec,       \* SpecAb: what the round of the loop over tests rendered
    aop,        \* SpecAb: the last change of adf
    largs,      \* SpecLift: the click rates <<control, test>>
    lres,       \* SpecLift: the lift and winner computed for largs
    db,         \* SpecCache: the version of the table in the data source
    cache,      \* SpecCache: the memoized fetch, with the instant it was stored
    clock,      \* SpecCache: the time in seconds
    served,     \* SpecCache: the version of the table the last pass worked on
    queries     \* SpecCache: the number of queries sent to the data source

mvars == <<mdf, mres, mop>>
dvars == <<dargs, dres>>
pvars == <<pargs, pres>>
rvars == <<snapshot, now, ui, out, budget>>
avars == <<adf, ares, asec, aop>>
lvars == <<largs, lres>>
cvars == <<db, cache, clock, served, queries>>

---------------------------------------------------------------------------
(* Bounds of the model *)

\* index labels of a frame handed to calculate_metrics are 0..MaxRows-1
MaxRows == 2

\* calc_delta is applied to the halves -MaxHalves/2 .. MaxHalves/2
MaxHalves == 10

\* instants are counted in ticks, TicksPerDay of them to a day
TicksPerDay == 2

\* the period windows are resolved at the instants -MaxNow .. MaxNow
MaxNow == 6

\* the fetched table holds at most MaxSessions sessions
MaxSessions == 2

\* at most MaxInteractions widgets are away from their default at a time
MaxInteractions == 1

---------------------------------------------------------------------------
(* Exact rational arithmetic standing for Python / numpy floats *)

Abs(x) == IF x < 0 THEN -x ELSE x

RECURSIVE Gcd(_, _)
Gcd(a, b) == IF b = 0 THEN a ELSE Gcd(b, a % b)

\* the rational n/d (d # 0) in lowest terms with a positive denominator
Rat(n, d) ==
    LET g == Gcd(Abs(n), Abs(d))
        s == IF d < 0 THEN -1 ELSE 1
    IN  [n |-> s * (n \div g), d |-> s * (d \div g)]

R(k) == [n |-> k, d |-> 1]
RSub(a, b) == Rat(a.n * b.d - b.n * a.d, a.d * b.d)
RMul(a, b) == Rat(a.n * b.n, a.d * b.d)
RDiv(a, b) == Rat(a.n * b.d, a.d * b.n)
RLess(a, b) == a.n * b.d < b.n * a.d
RLeq(a, b) == a.n * b.d <= b.n * a.d
RIsZero(a) == a.n = 0

\* F(v), with v evaluated once
Bind(v, F(_)) == CHOOSE r \in {F(x) : x \in {v}} : TRUE

None == <<>>
Some(x) == <<x>>

---------------------------------------------------------------------------
(* pandas Series and DataFrame operations used by the program *)

\* pd.Series([0]): one element, 0, at index label 0
DefaultSeries == [i \in {0} |-> 0]

\* df.get(col, pd.Series([0])): the column, or the default when it is absent
DfGet(df, col) ==
    IF col \in df.cols THEN [i \in DOMAIN df.rows |-> df.rows[i][col]]
    ELSE DefaultSeries

\* elementwise comparisons of a Series with a scalar
SeriesEq(s, k) == [i \in DOMAIN s |-> s[i] = k]
SeriesGt(s, k) == [i \in DOMAIN s |-> s[i] > k]
SeriesLe(s, k) == [i \in DOMAIN s |-> s[i] <= k]

\* a & b, a | b on boolean Series: the indexes are aligned on their union
\* and a label missing from one side counts as False there
SeriesAnd(a, b) ==
    [i \in (DOMAIN a) \cup (DOMAIN b) |->
        (i \in DOMAIN a /\ a[i]) /\ (i \in DOMAIN b /\ b[i])]
SeriesOr(a, b) ==
    [i \in (DOMAIN a) \cup (DOMAIN b) |->
        (i \in DOMAIN a /\ a[i]) \/ (i \in DOMAIN b /\ b[i])]

\* s[mask] for a mask computed from s itself: the labels where it is True
SeriesSelect(s, mask) ==
    LET keep == {i \in DOMAIN s : mask[i]} IN [i \in keep |-> s[i]]

\* df[mask] with a boolean Series: pandas reindexes the mask to the frame's
\* index and raises IndexingError ("Unalignable boolean Series provided as
\* indexer") when a label of the frame is missing from the mask
Unalignable(df, mask) == ~((DOMAIN df.rows) \subseteq (DOMAIN mask))

DfSelect(df, mask) ==
    LET keep == {i \in DOMAIN df.rows : mask[i]}
    IN  [cols |-> df.cols, rows |-> [i \in keep |-> df.rows[i]]]

DfLen(df) == Cardinality(DOMAIN df.rows)

\* df.empty: a fetched frame always has its session_id column, so it is
\* empty when it has no rows
DfEmpty(df) == DfLen(df) = 0

\* df[...] with a mask computed from df itself: the rows that satisfy P
DfWhere(df, P(_)) == DfSelect(df, [i \in DOMAIN df.rows |-> P(df.rows[i])])

\* Series.sum()
RECURSIVE SumOver(_, _)
SumOver(s, S) ==
    IF S = {} THEN 0
    ELSE LET i == CHOOSE j \in S : TRUE IN s[i] + SumOver(s, S \ {i})

SeriesSum(s) == SumOver(s, DOMAIN s)

\* the k-th smallest value (k >= 1) of the Series s over the labels S
RECURSIVE KthSmallest(_, _, _)
KthSmallest(s, S, k) ==
    LET i == CHOOSE j \in S : \A l \in S : s[j] <= s[l]
    IN  IF k = 1 THEN s[i] ELSE KthSmallest(s, S \ {i}, k - 1)

\* Series.median() of a non-empty Series: the middle value of the sorted
\* values, or the mean of the two middle values
SeriesMedian(s) ==
    LET n == Cardinality(DOMAIN s)
    IN  IF n % 2 = 1 THEN R(KthSmallest(s, DOMAIN s, (n + 1) \div 2))
        ELSE Rat(KthSmallest(s, DOMAIN s, n \div 2)
                 + KthSmallest(s, DOMAIN s, n \div 2 + 1), 2)

---------------------------------------------------------------------------
(* calculate_metrics *)

MetricNames == {"sessions", "median_time", "median_scroll", "total_clicks",
                "clicked_buy", "initiated_checkout", "purchased",
                "bounce_rate", "engaged_sessions"}

\* the outcome of a call: the dictionary returned, or the exception raised
Returned(m) == [error |-> "none", metrics |-> m]
Raised(e) == [error |-> e, metrics |-> << >>]

\* mutant: no sessions reported as all sessions bounced
EmptyMetrics_AllBounced ==
    [sessions |-> 0, median_time |-> R(0), median_scroll |-> R(0),
     total_clicks |-> 0, clicked_buy |-> 0, initiated_checkout |-> 0,
     purchased |-> 0, bounce_rate |-> R(100), engaged_sessions |-> 0]

\* the dictionary returned for an empty frame
EmptyMetrics ==
    [sessions |-> 0, median_time |-> R(0), median_scroll |-> R(0),
     total_clicks |-> 0, clicked_buy |-> 0, initiated_checkout |-> 0,
     purchased |-> 0, bounce_rate |-> R(0), engaged_sessions |-> 0]

\* mutant: the 30 minute cap forgotten
ValidTime_NoCap(time_col) == SeriesSelect(time_col, SeriesGt(time_col, 0))

\* time_col[(time_col > 0) & (time_col <= 1800)]
ValidTime(time_col) ==
    SeriesSelect(time_col, SeriesAnd(SeriesGt(time_col, 0), SeriesLe(time_col, 1800)))

\* scroll_col[scroll_col > 0]
ValidScroll(scroll_col) == SeriesSelect(scroll_col, SeriesGt(scroll_col, 0))

\* (time_col == 0) | (scroll_col == 0)
BounceMask(time_col, scroll_col) ==
    SeriesOr(SeriesEq(time_col, 0), SeriesEq(scroll_col, 0))

\* mutant: engaged on either threshold
EngagedMask_Either(time_col, scroll_col) ==
    SeriesOr(SeriesGt(time_col, 10), SeriesGt(scroll_col, 25))

\* (time_col > 10) & (scroll_col > 25)
EngagedMask(time_col, scroll_col) ==
    SeriesAnd(SeriesGt(time_col, 10), SeriesGt(scroll_col, 25))

\* mutant: the ratio taken the wrong way round
BounceRate_Inverted(bounces, n) ==
    IF bounces > 0 THEN RMul(Rat(n, bounces), R(100)) ELSE R(0)

\* (bounces / len(df) * 100) if len(df) > 0 else 0
BounceRate(bounces, n) ==
    IF n > 0 THEN RMul(Rat(bounces, n), R(100)) ELSE R(0)

\* x.median() if len(x) > 0 else 0
MedianOrZero(s) ==
    IF Cardinality(DOMAIN s) > 0 THEN SeriesMedian(s) ELSE R(0)

\* the body of calculate_metrics for a frame with rows, time_col and
\* scroll_col being the two columns fetched with df.get
NonEmptyMetrics(df, time_col, scroll_col) ==
    LET valid_time == ValidTime(time_col)
        valid_scroll == ValidScroll(scroll_col)
    IN  Bind(<<BounceMask(time_col, scroll_col), EngagedMask(time_col, scroll_col)>>,
          LAMBDA mask :
            IF Unalignable(df, mask[1]) \/ Unalignable(df, mask[2])
            THEN Raised("IndexingError")
            ELSE
            LET bounces == DfLen(DfSelect(df, mask[1]))
                engaged == DfLen(DfSelect(df, mask[2]))
            IN  Returned(
                  [sessions |-> DfLen(df),
                   median_time |-> MedianOrZero(valid_time),
                   median_scroll |-> MedianOrZero(valid_scroll),
                   total_clicks |-> SeriesSum(DfGet(df, "clicks_total")),
                   clicked_buy |-> SeriesSum(DfGet(df, "clicked_buy")),
                   initiated_checkout |-> SeriesSum(DfGet(df, "initiated_checkout")),
                   purchased |-> SeriesSum(DfGet(df, "purchased")),
                   bounce_rate |-> BounceRate(bounces, DfLen(df)),
                   engaged_sessions |-> engaged]))

calculate_metrics(frame) ==
    Bind(frame, LAMBDA df :
      IF DfEmpty(df) THEN Returned(EmptyMetrics)
      ELSE Bind(<<DfGet(df, "time_on_site_sec"), DfGet(df, "scroll_depth_pct")>>,
                LAMBDA col : NonEmptyMetrics(df, col[1], col[2])))

---------------------------------------------------------------------------
(* calc_delta *)

\* mutant: no previous value reported as no change
calc_delta_ZeroDefault(current, prev) ==
    IF RIsZero(prev) THEN Some(R(0))
    ELSE Some(RMul(RDiv(RSub(current, prev), prev), R(100)))

calc_delta(current, prev) ==
    IF RIsZero(prev) THEN None
    ELSE Some(RMul(RDiv(RSub(current, prev), prev), R(100)))

---------------------------------------------------------------------------
(* calculate_ab_stats and the A/B test section built on it *)

\* a null cell of the table (None / NaN)
Null == "None"

\* the labels of S in ascending order: the order of the rows of a frame
RECURSIVE SortedLabels(_)
SortedLabels(S) ==
    IF S = {} THEN << >>
    ELSE LET i == CHOOSE j \in S : \A k \in S : j <= k
         IN  <<i>> \o SortedLabels(S \ {i})

\* the values of sequence q without repetitions, each at its first position
RECURSIVE FirstSeen(_)
FirstSeen(q) ==
    IF q = << >> THEN << >>
    ELSE LET rest == FirstSeen(SubSeq(q, 1, Len(q) - 1))
             last == q[Len(q)]
         IN  IF \E k \in 1 .. Len(rest) : rest[k] = last THEN rest
             ELSE Append(rest, last)

\* mutant: unique() without dropna()
UniqueVariants_KeepNull(df, variant_col) ==
    LET labels == SortedLabels(DOMAIN df.rows)
    IN  FirstSeen([k \in 1 .. Len(labels) |-> df.rows[labels[k]][variant_col]])

\* df[variant_col].dropna().unique()
UniqueVariants(df, variant_col) ==
    LET labels == SortedLabels({i \in DOMAIN df.rows : df.rows[i][variant_col] # Null})
    IN  FirstSeen([k \in 1 .. Len(labels) |-> df.rows[labels[k]][variant_col]])

\* mutant: the click rate taken as a fraction, not a percentage
ClickRate_Fraction(clicked_buy, sessions) ==
    IF sessions > 0 THEN Rat(clicked_buy, sessions) ELSE R(0)

\* (m['clicked_buy'] / m['sessions'] * 100) if m['sessions'] > 0 else 0
ClickRate(clicked_buy, sessions) ==
    IF sessions > 0 THEN RMul(Rat(clicked_buy, sessions), R(100)) ELSE R(0)

\* the row appended to results for one variant, res being what
\* calculate_metrics did with the rows of that variant
VariantRow(variant, res) ==
    LET m == res.metrics
    IN  [variant |-> variant, sessions |-> m.sessions, median_time |-> m.median_time,
         median_scroll |-> m.median_scroll, clicked_buy |-> m.clicked_buy,
         click_rate |-> ClickRate(m.clicked_buy, m.sessions),
         bounce_rate |-> m.bounce_rate, engaged |-> m.engaged_sessions]

\* the outcome of a call: error is "none" and stats is None or the rows of the
\* frame returned, or error is the exception calculate_metrics raised
calculate_ab_stats(frame, variant_col) ==
    Bind(frame, LAMBDA df :
      IF variant_col \notin df.cols \/ DfEmpty(df) THEN [error |-> "none", stats |-> None]
      ELSE Bind(UniqueVariants(df, variant_col), LAMBDA variants :
             Bind([k \in 1 .. Len(variants) |->
                     calculate_metrics(
                       DfWhere(df, LAMBDA r : r[variant_col] = variants[k]))],
                  LAMBDA res :
                    IF \E k \in 1 .. Len(res) : res[k].error # "none"
                    THEN [error |-> "IndexingError", stats |-> None]
                    ELSE [error |-> "none",
                          stats |-> Some([k \in 1 .. Len(variants) |->
                                            VariantRow(variants[k], res[k])])])))

\* mutant: the lift relative to the test group
Lift_OverTest(control_rate, test_rate) ==
    IF RLess(R(0), control_rate) /\ ~RIsZero(test_rate)
    THEN RMul(RDiv(RSub(test_rate, control_rate), test_rate), R(100))
    ELSE R(0)

\* ((test - control) / control * 100) if control > 0 else 0, on click rates
Lift_Magnitude(control_rate, test_rate) ==
    IF RLess(R(0), control_rate)
    THEN RMul(RDiv(IF RLess(test_rate, control_rate)
                   THEN RSub(control_rate, test_rate)
                   ELSE RSub(test_rate, control_rate), control_rate), R(100))
    ELSE R(0)

Lift(control_rate, test_rate) ==
    IF RLess(R(0), control_rate)
    THEN RMul(RDiv(RSub(test_rate, control_rate), control_rate), R(100))
    ELSE R(0)

\* mutant: a lift of exactly 5 counted as a win of the test
Winner_FromFive(lift) ==
    IF RLeq(R(5), lift) THEN "test winning"
    ELSE IF RLess(lift, R(-5)) THEN "control winning"
    ELSE "no clear winner"

\* the winner callout: st.success / st.error / st.info
Winner(lift) ==
    IF RLess(R(5), lift) THEN "test winning"
    ELSE IF RLess(lift, R(-5)) THEN "control winning"
    ELSE "no clear winner"

\* what one round of the loop over tests leaves on the page: nothing after a
\* continue, else the heading with the lift and the winner callout
SkippedSection == [rendered |-> << >>, lift |-> None, winner |-> None]

\* stats[stats['variant'] == v].iloc[0] if v in stats['variant'].values else None
VariantOf(stats, v) ==
    IF \E k \in 1 .. Len(stats) : stats[k].variant = v
    THEN Some(stats[CHOOSE k \in 1 .. Len(stats) :
                      /\ stats[k].variant = v
                      /\ \A j \in 1 .. k - 1 : stats[j].variant # v])
    ELSE None

\* one round of the loop over tests, ab being what calculate_ab_stats did
TestSection(ab) ==
    IF ab.stats = None \/ Len(ab.stats[1]) < 2 THEN SkippedSection
    ELSE Bind(<<VariantOf(ab.stats[1], "control"), VariantOf(ab.stats[1], "test")>>,
           LAMBDA ct :
             IF ct[1] = None \/ ct[2] = None THEN SkippedSection
             ELSE Bind(Lift(ct[1][1].click_rate, ct[2][1].click_rate), LAMBDA lift :
                    [rendered |-> <<"heading", "metrics", "charts", Winner(lift)>>,
                     lift |-> Some(lift), winner |-> Some(Winner(lift))]))

---------------------------------------------------------------------------
(* Instants and the period windows *)

\* timedelta(days=k)
Days(k) == k * TicksPerDay

\* now.replace(hour=0, minute=0, second=0, microsecond=0)
TodayStart(t) == t - (t % TicksPerDay)

PeriodTokens == {"Today", "Last 7 Days", "Last 30 Days", "All Time"}

\* mutant: the comparison window of the last 7 days taken as the 7 days
\* before today's midnight
Periods_PrevFromMidnight(t, earliest) ==
    [p \in PeriodTokens |->
        CASE p = "Today" ->
               <<TodayStart(t), t, TodayStart(t) - Days(1), TodayStart(t)>>
          [] p = "Last 7 Days" ->
               <<t - Days(7), t, TodayStart(t) - Days(14), TodayStart(t) - Days(7)>>
          [] p = "Last 30 Days" ->
               <<t - Days(30), t, t - Days(60), t - Days(30)>>
          [] p = "All Time" ->
               <<earliest, t, earliest, earliest>>]

\* mutant: "All Time" starting 30 days back
Periods_AllTimeCapped(t, earliest) ==
    [p \in PeriodTokens |->
        CASE p = "Today" ->
               <<TodayStart(t), t, TodayStart(t) - Days(1), TodayStart(t)>>
          [] p = "Last 7 Days" ->
               <<t - Days(7), t, t - Days(14), t - Days(7)>>
          [] p = "Last 30 Days" ->
               <<t - Days(30), t, t - Days(60), t - Days(30)>>
          [] p = "All Time" ->
               <<t - Days(30), t, earliest, earliest>>]

\* the periods dictionary at instant t, earliest being
\* df_all['started_at'].min(): period token ->
\* <<current_start, current_end, prev_start, prev_end>>
Periods(t, earliest) ==
    [p \in PeriodTokens |->
        CASE p = "Today" ->
               <<TodayStart(t), t, TodayStart(t) - Days(1), TodayStart(t)>>
          [] p = "Last 7 Days" ->
               <<t - Days(7), t, t - Days(14), t - Days(7)>>
          [] p = "Last 30 Days" ->
               <<t - Days(30), t, t - Days(60), t - Days(30)>>
          [] p = "All Time" ->
               <<earliest, t, earliest, earliest>>]

---------------------------------------------------------------------------
(* The render pass: one run of the script *)

\* midnight of the day the modelled session runs in
Epoch == 0

\* V2_LAUNCH: the instant that splits V1.0 from V2.0 sessions
V2_LAUNCH == Epoch - Days(3)

SessionCols == {"started_at", "is_bot", "utm_source", "price_shown", "hero_test_id",
                "time_on_site_sec", "scroll_depth_pct", "clicks_total",
                "clicked_buy", "initiated_checkout", "purchased"}

\* the default values of the widgets
DefaultUi ==
    [period |-> "All Time", selected_price |-> "All Prices",
     show_tiktok_only |-> FALSE, exclude_bots |-> TRUE, compare |-> TRUE,
     version_filter |-> "Both Versions", selected_round |-> "All Rounds",
     show_version_comparison |-> TRUE]

VersionOptions == {"Both Versions", "V2.0 (Outcome-Focused)", "V1.0 (Feature-Focused)"}

\* test_rounds: round -> the hero test id it selects (<<>> for None)
test_rounds ==
    [r \in {"All Rounds", "Round 2 (Current)", "Round 1 (Completed)"} |->
        CASE r = "All Rounds" -> None
          [] r = "Round 2 (Current)" -> Some("headline-001")
          [] r = "Round 1 (Completed)" -> Some("hero-price-001")]

\* f"${int(p)}" for the prices of the model, and float(s.replace('$', ''))
FormatPrice(p) == CASE p = 17 -> "$17" [] p = 27 -> "$27"
ParsePrice(s) == CASE s = "$17" -> 17 [] s = "$27" -> 27

\* the options of the price selectbox
PriceOptions(df) ==
    {"All Prices"} \cup
      (IF "price_shown" \in df.cols
       THEN {FormatPrice(df.rows[i].price_shown) :
               i \in {j \in DOMAIN df.rows : df.rows[j].price_shown > 0}}
       ELSE {})

\* mutant: the empty frame is reported but the script goes on
Stops_Never(df) == FALSE

\* if df_all.empty: st.error("No data available"); st.stop()
Stops(df) == DfEmpty(df)

\* classify_version: a copy of the frame with the version column added
classify_version(df, v2_launch_time) ==
    IF DfEmpty(df) \/ "started_at" \notin df.cols THEN df
    ELSE [cols |-> df.cols \cup {"version"},
          rows |-> [i \in DOMAIN df.rows |->
                      [c \in df.cols \cup {"version"} |->
                          IF c = "version"
                          THEN (IF df.rows[i].started_at >= v2_launch_time
                                THEN "V2.0" ELSE "V1.0")
                          ELSE df.rows[i][c]]]]

\* Objects and names.  A frame lives in an object of the heap; a name of
\* the script refers to an object (0: not bound).  df.copy() and a selection
\* df[...] make a new object, df[col] = ... changes the object df refers to,
\* and passing or returning a frame binds another name to the same object.
Names == {"df_all", "df", "df_period", "df_filtered", "df_prev", "df_trends",
          "df_temp", "recent"}

Fetched(frame) ==
    [heap |-> <<frame>>, env |-> [n \in Names |-> IF n = "df_all" THEN 1 ELSE 0]]

Deref(h, name) == h.heap[h.env[name]]

NewObject(h, name, frame) ==
    [heap |-> Append(h.heap, frame), env |-> [h.env EXCEPT ![name] = Len(h.heap) + 1]]

SameObject(h, name, other) == [h EXCEPT !.env[name] = h.env[other]]

InPlace(h, name, frame) == [h EXCEPT !.heap[h.env[name]] = frame]

\* mutant: classify_version without `df = df.copy()`
ClassifyVersionCall_NoCopy(h, v2_launch_time) ==
    LET h1 == SameObject(h, "df", "df_all")
        df == Deref(h1, "df")
    IN  IF DfEmpty(df) \/ "started_at" \notin df.cols
        THEN SameObject(h1, "df_all", "df")
        ELSE SameObject(InPlace(h1, "df", classify_version(df, v2_launch_time)),
                        "df_all", "df")

\* df_all = classify_version(df_all, V2_LAUNCH), on the heap
ClassifyVersionCall(h, v2_launch_time) ==
    LET h1 == SameObject(h, "df", "df_all")
        df == Deref(h1, "df")
    IN  IF DfEmpty(df) \/ "started_at" \notin df.cols
        THEN SameObject(h1, "df_all", "df")
        ELSE LET h2 == NewObject(h1, "df", df)
                 h3 == InPlace(h2, "df", classify_version(Deref(h2, "df"), v2_launch_time))
             IN  SameObject(h3, "df_all", "df")

\* df_all['started_at'].min()
MinStartedAt(df) ==
    LET i == CHOOSE j \in DOMAIN df.rows :
                \A k \in DOMAIN df.rows : df.rows[j].started_at <= df.rows[k].started_at
    IN  df.rows[i].started_at

\* df_all[(started_at >= current_start) & (started_at <= current_end)]
InCurrentWindow(frame, w) ==
    Bind(frame, LAMBDA df :
      DfWhere(df, LAMBDA r : r.started_at >= w[1] /\ r.started_at <= w[2]))

\* mutant: the comparison window closed at prev_end
InPrevWindow_Closed(frame, w) ==
    Bind(frame, LAMBDA df :
      DfWhere(df, LAMBDA r : r.started_at >= w[3] /\ r.started_at <= w[4]))

\* df_all[(started_at >= prev_start) & (started_at < prev_end)]
InPrevWindow(frame, w) ==
    Bind(frame, LAMBDA df :
      DfWhere(df, LAMBDA r : r.started_at >= w[3] /\ r.started_at < w[4]))

\* if exclude_bots: df = df[df['is_bot'] != True]
BotFilter(frame, u) ==
    Bind(frame, LAMBDA df :
      IF u.exclude_bots THEN DfWhere(df, LAMBDA r : r.is_bot # "True") ELSE df)

\* if show_tiktok_only: df = df[df['utm_source'] == 'tiktok']
TikTokFilter(frame, u) ==
    Bind(frame, LAMBDA df :
      IF u.show_tiktok_only THEN DfWhere(df, LAMBDA r : r.utm_source = "tiktok") ELSE df)

\* the price filter
PriceFilter(frame, u) ==
    Bind(frame, LAMBDA df :
      IF u.selected_price # "All Prices" /\ "price_shown" \in df.cols
      THEN DfWhere(df, LAMBDA r : r.price_shown = ParsePrice(u.selected_price))
      ELSE df)

\* the version filter
VersionFilter(frame, u) ==
    Bind(frame, LAMBDA df :
      CASE u.version_filter = "V2.0 (Outcome-Focused)" ->
             DfWhere(df, LAMBDA r : r.version = "V2.0")
        [] u.version_filter = "V1.0 (Feature-Focused)" ->
             DfWhere(df, LAMBDA r : r.version = "V1.0")
        [] OTHER -> df)

\* the test round filter
RoundFilter(frame, u) ==
    Bind(frame, LAMBDA df :
      LET selected_test_ids == test_rounds[u.selected_round]
      IN  IF selected_test_ids # None /\ "hero_test_id" \in df.cols
          THEN DfWhere(df, LAMBDA r : r.hero_test_id = selected_test_ids[1])
          ELSE df)

\* df_filtered from df_period: bots, TikTok, price, version, test round
FilterCurrent(df_period, u) ==
    RoundFilter(VersionFilter(PriceFilter(TikTokFilter(BotFilter(df_period, u), u), u), u), u)

\* df_prev after its filters: bots, TikTok, price, test round
FilterPrev(df_prev, u) ==
    RoundFilter(PriceFilter(TikTokFilter(BotFilter(df_prev, u), u), u), u)

\* RoundHalfEven(n, d): the integer nearest to n/d (d > 0), ties to even
RoundHalfEven(n, d) ==
    LET q == n \div d
        r == n % d
    IN  IF 2 * r < d THEN q
        ELSE IF 2 * r > d THEN q + 1
        ELSE IF q % 2 = 0 THEN q ELSE q + 1

\* f"{delta:+.2f}%": the signed number of hundredths printed
FormatDelta(x) == [hundredths |-> RoundHalfEven(x.n * 100, x.d)]

\* f"{delta:+.2f}%" if delta else None: None and 0.0 are both falsy
ShownDelta(delta) ==
    IF delta = None \/ RIsZero(delta[1]) THEN None ELSE Some(FormatDelta(delta[1]))

\* calc_delta(...) if compare and period != "All Time" else None
EngagementDelta(current, prev, u) ==
    IF u.compare /\ u.period # "All Time" THEN calc_delta(current, prev) ELSE None

NoDeltas == [sessions |-> None, median_time |-> None, median_scroll |-> None]

\* numpy's float division (the operands come from Series.sum()): x / 0 is
\* inf, -inf or nan with a RuntimeWarning, no exception.  A value is a
\* fraction n/d; d = 0 holds inf (n = 1), -inf (n = -1) and nan (n = 0).
Inf == [n |-> 1, d |-> 0]
NaN == [n |-> 0, d |-> 0]
Finite(x) == x.d # 0

NpDiv(a, b) ==
    IF ~Finite(a) \/ ~Finite(b) THEN NaN
    ELSE IF RIsZero(b)
         THEN [n |-> IF a.n > 0 THEN 1 ELSE IF a.n < 0 THEN -1 ELSE 0, d |-> 0]
         ELSE RDiv(a, b)

NpMul(a, b) ==
    IF Finite(a) /\ Finite(b) THEN RMul(a, b)
    ELSE [n |-> IF a.n * b.n > 0 THEN 1 ELSE IF a.n * b.n < 0 THEN -1 ELSE 0, d |-> 0]

\* Series.fillna(0): nan becomes 0, inf stays
fillna(x, v) == IF x = NaN THEN v ELSE x

\* (a / b * 100) if b > 0 else 0
RateOrZero(a, b) == IF b > 0 THEN RMul(Rat(a, b), R(100)) ELSE R(0)

NoVersionComparison == [section |-> "hidden", values |-> {}, callout |-> "none"]

\* the V1.0 vs V2.0 section
VersionComparison(df_filtered, u) ==
    IF ~(u.show_version_comparison /\ u.version_filter = "Both Versions")
    THEN NoVersionComparison
    ELSE
      Bind(<<DfWhere(df_filtered, LAMBDA r : r.version = "V1.0"),
             DfWhere(df_filtered, LAMBDA r : r.version = "V2.0")>>, LAMBDA dfv :
        IF DfEmpty(dfv[1]) \/ DfEmpty(dfv[2])
        THEN [section |-> "caption", values |-> {}, callout |-> "none"]
        ELSE
          Bind(<<calculate_metrics(dfv[1]).metrics, calculate_metrics(dfv[2]).metrics>>,
               LAMBDA mv :
            LET metrics_v1 == mv[1]
                metrics_v2 == mv[2]
                sessions_lift == RateOrZero(metrics_v2.sessions - metrics_v1.sessions,
                                            metrics_v1.sessions)
                ctr_v1 == RateOrZero(metrics_v1.clicked_buy, metrics_v1.sessions)
                ctr_v2 == RateOrZero(metrics_v2.clicked_buy, metrics_v2.sessions)
                ctr_lift == RSub(ctr_v2, ctr_v1)
                checkout_v1 == RateOrZero(metrics_v1.initiated_checkout, metrics_v1.sessions)
                checkout_v2 == RateOrZero(metrics_v2.initiated_checkout, metrics_v2.sessions)
                cards == {<<"sessions_lift", sessions_lift>>, <<"ctr_v1", ctr_v1>>,
                          <<"ctr_v2", ctr_v2>>, <<"ctr_lift", ctr_lift>>,
                          <<"checkout_v1", checkout_v1>>, <<"checkout_v2", checkout_v2>>}
            IN  IF RLess(ctr_v1, ctr_v2)
                THEN [section |-> "metrics", callout |-> "V2.0 is winning",
                      values |-> cards \cup
                        {<<"relative improvement", NpMul(NpDiv(ctr_lift, ctr_v1), R(100))>>}]
                ELSE IF RLess(ctr_v2, ctr_v1)
                THEN [section |-> "metrics", callout |-> "V1.0 is performing better",
                      values |-> cards]
                ELSE [section |-> "metrics", callout |-> "performing similarly",
                      values |-> cards]))

\* started_at.dt.floor('H' if period == 'Today' else 'D'); an instant of the
\* model is a whole number of hours
Bucket(t, u) == IF u.period = "Today" THEN t ELSE TodayStart(t)

\* df['bucket'] = df['started_at'].dt.floor(...)
WithBucket(df, u) ==
    [cols |-> df.cols \cup {"bucket"},
     rows |-> [i \in DOMAIN df.rows |->
                 [c \in df.cols \cup {"bucket"} |->
                     IF c = "bucket" THEN Bucket(df.rows[i].started_at, u)
                     ELSE df.rows[i][c]]]]

RecentCols == {"started_at", "time_on_site_sec", "scroll_depth_pct", "clicked_buy"}

\* df_filtered[cols].head(15): the columns of `cols` the frame has
RecentSelection(df) ==
    [cols |-> RecentCols \cap df.cols,
     rows |-> [i \in DOMAIN df.rows |-> [c \in RecentCols \cap df.cols |-> df.rows[i][c]]]]

\* recent['started_at'] = recent['started_at'].dt.strftime('%H:%M:%S'): the
\* time of day as text
WithClockTime(df) ==
    [cols |-> df.cols,
     rows |-> [i \in DOMAIN df.rows |->
                 [c \in df.cols |->
                     IF c = "started_at"
                     THEN <<"%H:%M:%S", df.rows[i].started_at % TicksPerDay>>
                     ELSE df.rows[i][c]]]]

\* the objects the script makes and changes after the classification: the
\* selections and copies of lines 300-336, the trend and chart frames and the
\* table of recent sessions
ObjectsOfPass(h, df_period, df_filtered, df_prev, u) ==
    LET h1 == NewObject(h, "df_period", df_period)
        h2 == NewObject(h1, "df_filtered", Deref(h1, "df_period"))
        h3 == NewObject(h2, "df_filtered", df_filtered)
        h4 == NewObject(h3, "df_prev", df_prev)
    IN  IF DfEmpty(df_filtered) THEN h4
        ELSE LET h5 == NewObject(h4, "df_trends", Deref(h4, "df_filtered"))
                 h6 == InPlace(h5, "df_trends", WithBucket(Deref(h5, "df_trends"), u))
                 h7 == NewObject(h6, "df_temp", Deref(h6, "df_filtered"))
                 h8 == InPlace(h7, "df_temp", WithBucket(Deref(h7, "df_temp"), u))
                 h9 == NewObject(h8, "recent", RecentSelection(Deref(h8, "df_filtered")))
             IN  InPlace(h9, "recent", WithClockTime(Deref(h9, "recent")))

\* the rates of the trend charts, one record per time bucket
TrendRates(df_filtered, u) ==
    IF DfEmpty(df_filtered) THEN {}
    ELSE
      LET rows == df_filtered.rows
          buckets == {Bucket(rows[i].started_at, u) : i \in DOMAIN rows}
          In(b) == {i \in DOMAIN rows : Bucket(rows[i].started_at, u) = b}
          Sum(b, c) == SumOver([i \in DOMAIN rows |-> rows[i][c]], In(b))
      IN  { LET sessions == R(Cardinality(In(b)))
                buy_clicks == R(Sum(b, "clicked_buy"))
                checkouts == R(Sum(b, "initiated_checkout"))
                users_10sec == R(Cardinality({i \in In(b) : rows[i].time_on_site_sec > 10}))
            IN  [date |-> b,
                 ctr |-> fillna(NpMul(NpDiv(buy_clicks, sessions), R(100)), R(0)),
                 checkout_rate |-> fillna(NpMul(NpDiv(checkouts, buy_clicks), R(100)), R(0)),
                 engaged_rate |-> fillna(NpMul(NpDiv(users_10sec, sessions), R(100)), R(0))]
            : b \in buckets }

\* what a pass leaves when st.stop() or an exception ends it before the
\* period calculations
EndedPass(notices, error, fetched) ==
    [notices |-> notices, error |-> error, stopped |-> TRUE, reached |-> {},
     windows |-> None, period_rows |-> {}, prev_window_rows |-> {},
     filtered_rows |-> {}, prev_rows |-> {},
     metrics |-> None, prev_metrics |-> None,
     delta |-> NoDeltas, shown |-> NoDeltas,
     version_cmp |-> NoVersionComparison, engaged_rate |-> R(0), trend |-> {},
     fetched_after |-> fetched]

\* the engagement cards: the three deltas and what is displayed for them
EngagementCards(m, pm, u) ==
    LET delta == [sessions |-> EngagementDelta(R(m.sessions), R(pm.sessions), u),
                  median_time |-> EngagementDelta(m.median_time, pm.median_time, u),
                  median_scroll |->
                      EngagementDelta(m.median_scroll, pm.median_scroll, u)]
    IN  [delta |-> delta, shown |-> [k \in DOMAIN delta |-> ShownDelta(delta[k])]]

\* the script from the filters on: df_period and df_prev0 are the selections
\* of df_all by the two windows of w
PassInWindows(h, notices, w, df_period, df_prev0, u) ==
    Bind(<<FilterCurrent(df_period, u), FilterPrev(df_prev0, u)>>, LAMBDA df :
      Bind(<<calculate_metrics(df[1]), calculate_metrics(df[2])>>, LAMBDA res :
        Bind(EngagementCards(res[1].metrics, res[2].metrics, u), LAMBDA cards :
          [notices |-> notices, error |-> "none", stopped |-> FALSE,
           reached |-> {"periods", "calculate_metrics(df_filtered)",
                        "calculate_metrics(df_prev)", "calculate_ab_stats"},
           windows |-> Some(w),
           period_rows |-> DOMAIN df_period.rows,
           prev_window_rows |-> DOMAIN df_prev0.rows,
           filtered_rows |-> DOMAIN df[1].rows,
           prev_rows |-> DOMAIN df[2].rows,
           metrics |-> Some(res[1].metrics), prev_metrics |-> Some(res[2].metrics),
           delta |-> cards.delta,
           shown |-> cards.shown,
           version_cmp |-> VersionComparison(df[1], u),
           engaged_rate |-> RateOrZero(res[1].metrics.engaged_sessions,
                                       res[1].metrics.sessions),
           trend |-> TrendRates(df[1], u),
           fetched_after |-> ObjectsOfPass(h, df_period, df[1], df[2], u).heap[1]])))

\* the script from "Load data" to the engagement cards; the fetched table has
\* all of SessionCols, so both calls of calculate_metrics return
RenderPass(snap, t, u) ==
    LET fetched == [cols |-> IF snap = << >> THEN {} ELSE SessionCols, rows |-> snap]
        notices == IF DfEmpty(fetched) THEN <<"No data available">> ELSE << >>
    IN  IF Stops(fetched) THEN EndedPass(notices, "none", fetched)
        ELSE Bind(ClassifyVersionCall(Fetched(fetched), V2_LAUNCH), LAMBDA h :
               IF "version" \notin Deref(h, "df_all").cols
               THEN EndedPass(notices, "KeyError", h.heap[1])
               ELSE Bind(Periods(t, MinStartedAt(Deref(h, "df_all")))[u.period], LAMBDA w :
                      Bind(<<InCurrentWindow(Deref(h, "df_all"), w),
                             InPrevWindow(Deref(h, "df_all"), w)>>,
                           LAMBDA sel : PassInWindows(h, notices, w, sel[1], sel[2], u))))

---------------------------------------------------------------------------
(* SpecMetrics: calculate_metrics applied to every frame over a small     *)
(* table schema, the frames being reached by inserting and dropping rows  *)

MetricCols == {"time_on_site_sec", "scroll_depth_pct", "clicks_total",
               "clicked_buy", "initiated_checkout", "purchased"}

\* time on site: none, at the engagement threshold, at the 30 minute cap,
\* beyond the cap
TimeValues == {0, 10, 1800, 1801}

\* scroll depth: none, at the engagement threshold, beyond it
ScrollValues == {0, 25, 26}

\* the counters of a session that did nothing, that clicked three times and
\* hit Buy, and that bought
FunnelValues ==
    { [clicks_total |-> 0, clicked_buy |-> 0, initiated_checkout |-> 0, purchased |-> 0],
      [clicks_total |-> 3, clicked_buy |-> 1, initiated_checkout |-> 0, purchased |-> 0],
      [clicks_total |-> 2, clicked_buy |-> 1, initiated_checkout |-> 1, purchased |-> 1] }

MetricRecords ==
    { [time_on_site_sec |-> t, scroll_depth_pct |-> s,
       clicks_total |-> f.clicks_total, clicked_buy |-> f.clicked_buy,
       initiated_checkout |-> f.initiated_checkout, purchased |-> f.purchased] :
         t \in TimeValues, s \in ScrollValues, f \in FunnelValues }

Counters == {"clicks_total", "clicked_buy", "initiated_checkout", "purchased"}

\* the schemas of the table: complete; without the time, the scroll or both
\* columns; without one counter; without the counters; without all six
ColumnSets ==
    { MetricCols,
      MetricCols \ {"time_on_site_sec"},
      MetricCols \ {"scroll_depth_pct"},
      MetricCols \ {"time_on_site_sec", "scroll_depth_pct"},
      MetricCols \ {"clicked_buy"},
      MetricCols \ Counters,
      {} }

\* the rows a table with columns cols can hold
RowsOver(cols) == { [c \in cols |-> r[c]] : r \in MetricRecords }

\* the values of the variables a specification does not use
MetricsIdle ==
    /\ mdf = [cols |-> {}, rows |-> << >>]
    /\ mres = Returned(EmptyMetrics)
    /\ mop = "init"
DeltaIdle == dargs = << >> /\ dres = None
PeriodIdle == pargs = << >> /\ pres = << >>
RenderIdle ==
    /\ snapshot = << >>
    /\ now = Epoch
    /\ ui = DefaultUi
    /\ out = EndedPass(<< >>, "none", [cols |-> {}, rows |-> << >>])
    /\ budget = 0
AbIdle ==
    /\ adf = [cols |-> {}, rows |-> << >>]
    /\ ares = [error |-> "none", stats |-> None]
    /\ asec = SkippedSection
    /\ aop = "init"
LiftIdle == largs = << >> /\ lres = << >>
CacheIdle == db = 0 /\ cache = None /\ clock = 0 /\ served = None /\ queries = 0

MetricsInit ==
    /\ \E cols \in ColumnSets : mdf = [cols |-> cols, rows |-> << >>]
    /\ mres = calculate_metrics(mdf)
    /\ mop = "init"
    /\ DeltaIdle /\ PeriodIdle /\ RenderIdle /\ AbIdle /\ LiftIdle /\ CacheIdle

\* a frame with one more row of the table
InsertRecord ==
    \E i \in (0 .. MaxRows - 1) \ DOMAIN mdf.rows, r \in RowsOver(mdf.cols) :
        /\ mdf' = [mdf EXCEPT !.rows = [j \in (DOMAIN mdf.rows) \cup {i} |->
                                          IF j = i THEN r ELSE mdf.rows[j]]]
        /\ mres' = calculate_metrics(mdf')
        /\ mop' = "insert"
        /\ UNCHANGED <<dvars, pvars, rvars, avars, lvars, cvars>>

\* a frame with one row less
DropRecord ==
    \E i \in DOMAIN mdf.rows :
        /\ mdf' = [mdf EXCEPT !.rows = [j \in (DOMAIN mdf.rows) \ {i} |-> mdf.rows[j]]]
        /\ mres' = calculate_metrics(mdf')
        /\ mop' = "drop"
        /\ UNCHANGED <<dvars, pvars, rvars, avars, lvars, cvars>>

MetricsNext == InsertRecord \/ DropRecord

vars == <<mdf, mres, mop, dargs, dres, pargs, pres, snapshot, now, ui, out, budget,
          adf, ares, asec, aop, largs, lres, db, cache, clock, served, queries>>

SpecMetrics == MetricsInit /\ [][MetricsNext]_vars

---------------------------------------------------------------------------
(* SpecDelta: calc_delta applied to pairs of small rationals *)

\* the halves -MaxHalves/2 .. MaxHalves/2: counts and medians, and their
\* negatives
DeltaValues == { Rat(h, 2) : h \in (-MaxHalves) .. MaxHalves }

DeltaInit ==
    /\ dargs = << >>
    /\ dres = None
    /\ MetricsIdle /\ PeriodIdle /\ RenderIdle /\ AbIdle /\ LiftIdle /\ CacheIdle

CallCalcDelta ==
    \E current \in DeltaValues, prev \in DeltaValues :
        /\ dargs' = <<current, prev>>
        /\ dres' = calc_delta(current, prev)
        /\ UNCHANGED <<mvars, pvars, rvars, avars, lvars, cvars>>

DeltaNext == CallCalcDelta

SpecDelta == DeltaInit /\ [][DeltaNext]_vars

---------------------------------------------------------------------------
(* SpecPeriod: the period windows resolved at every instant of a range *)

PeriodInit ==
    /\ pargs = << >>
    /\ pres = << >>
    /\ MetricsIdle /\ DeltaIdle /\ RenderIdle /\ AbIdle /\ LiftIdle /\ CacheIdle

\* the windows of period p at instant t, the earliest session being at e
ResolvePeriod ==
    \E t \in (-MaxNow) .. MaxNow, e \in (-MaxNow) .. MaxNow, p \in PeriodTokens :
        /\ e <= t
        /\ pargs' = <<t, e, p>>
        /\ pres' = Periods(t, e)[p]
        /\ UNCHANGED <<mvars, dvars, rvars, avars, lvars, cvars>>

PeriodNext == ResolvePeriod

SpecPeriod == PeriodInit /\ [][PeriodNext]_vars

---------------------------------------------------------------------------
(* SpecRender: a browser session on one fetched snapshot.  Every widget   *)
(* change and every refresh runs the script again.  The widgets are drawn *)
(* after the "Load data" step, so a pass that stopped there shows none.   *)

\* the instants sessions started at: Epoch, and 1 and 7 days before it (no
\* session fetched has started after the pass that shows it)
StartedAtValues == {Epoch, Epoch - Days(1), Epoch - Days(7)}

\* a human TikTok visitor of test round 2 who read the page and hit Buy, a bot
\* of round 1 that bounced, and a direct visitor of round 2, not classified,
\* who stayed at the engagement thresholds and bought
SessionProfiles ==
    { [is_bot |-> "False", utm_source |-> "tiktok", price_shown |-> 17,
       hero_test_id |-> "headline-001", time_on_site_sec |-> 1800,
       scroll_depth_pct |-> 26, clicks_total |-> 3, clicked_buy |-> 1,
       initiated_checkout |-> 0, purchased |-> 0],
      [is_bot |-> "True", utm_source |-> "direct", price_shown |-> 27,
       hero_test_id |-> "hero-price-001", time_on_site_sec |-> 0,
       scroll_depth_pct |-> 0, clicks_total |-> 0, clicked_buy |-> 0,
       initiated_checkout |-> 0, purchased |-> 0],
      [is_bot |-> "None", utm_source |-> "direct", price_shown |-> 17,
       hero_test_id |-> "headline-001", time_on_site_sec |-> 10,
       scroll_depth_pct |-> 25, clicks_total |-> 2, clicked_buy |-> 1,
       initiated_checkout |-> 1, purchased |-> 1] }

Sessions ==
    { [c \in SessionCols |-> IF c = "started_at" THEN s ELSE pr[c]] :
        s \in StartedAtValues, pr \in SessionProfiles }

\* the tables the query can return: at most MaxSessions rows, labelled
\* 0..n-1, ordered by started_at descending
Snapshots ==
    UNION { { f \in [0 .. n - 1 -> Sessions] :
                \A i \in 0 .. n - 2 : f[i].started_at >= f[i + 1].started_at } :
            n \in 0 .. MaxSessions }

\* the instants the script runs at: midnight and a tick later
Instants == {Epoch, Epoch + 1}

\* the number of widgets whose value differs from its default
\* the default of the comparison checkbox is (version_filter == "Both Versions")
ShowComparisonDefault(u) == u.version_filter = "Both Versions"

Changed(u) ==
    Cardinality({k \in DOMAIN u \ {"show_version_comparison"} : u[k] # DefaultUi[k]})
    + (IF u.show_version_comparison # ShowComparisonDefault(u) THEN 1 ELSE 0)

RenderInit ==
    /\ snapshot \in Snapshots
    /\ now \in Instants
    /\ ui = DefaultUi
    /\ out = RenderPass(snapshot, now, ui)
    /\ budget = MaxInteractions
    /\ MetricsIdle /\ DeltaIdle /\ PeriodIdle /\ AbIdle /\ LiftIdle /\ CacheIdle

\* the script runs again with the widgets at u, at instant t
Rerun(u, t) ==
    /\ Changed(u) <= budget
    /\ now' = t
    /\ ui' = u
    /\ out' = RenderPass(snapshot, t, u)
    /\ UNCHANGED <<snapshot, budget, mvars, dvars, pvars, avars, lvars, cvars>>

\* a widget is changed: the script runs again within the same tick
SetPeriod ==
    /\ ~out.stopped
    /\ \E p \in PeriodTokens \ {ui.period} : Rerun([ui EXCEPT !.period = p], now)

SetPrice ==
    /\ ~out.stopped
    /\ \E s \in PriceOptions([cols |-> SessionCols, rows |-> snapshot]) \ {ui.selected_price} :
          Rerun([ui EXCEPT !.selected_price = s], now)

ToggleTikTok ==
    /\ ~out.stopped
    /\ \E b \in {~ui.show_tiktok_only} : Rerun([ui EXCEPT !.show_tiktok_only = b], now)

ToggleBots ==
    /\ ~out.stopped
    /\ \E b \in {~ui.exclude_bots} : Rerun([ui EXCEPT !.exclude_bots = b], now)

ToggleCompare ==
    /\ ~out.stopped
    /\ \E b \in {~ui.compare} : Rerun([ui EXCEPT !.compare = b], now)

SetVersion ==
    /\ ~out.stopped
    /\ \E v \in VersionOptions \ {ui.version_filter} :
          Rerun([ui EXCEPT !.version_filter = v,
                           !.show_version_comparison = (v = "Both Versions")], now)

\* the "Show version comparison charts" checkbox
ToggleVersionComparison ==
    /\ ~out.stopped
    /\ \E b \in {~ui.show_version_comparison} :
          Rerun([ui EXCEPT !.show_version_comparison = b], now)

SetRound ==
    /\ ~out.stopped
    /\ \E r \in (DOMAIN test_rounds) \ {ui.selected_round} :
          Rerun([ui EXCEPT !.selected_round = r], now)

\* the page is loaded again: the script runs with the same widgets, later
Refresh == \E t \in Instants : t > now /\ Rerun(ui, t)

RenderNext ==
    \/ SetPeriod \/ SetPrice \/ ToggleTikTok \/ ToggleBots \/ ToggleCompare
    \/ SetVersion \/ ToggleVersionComparison \/ SetRound \/ Refresh

SpecRender == RenderInit /\ [][RenderNext]_vars

\* the same session with a user who moves one widget more: a period and a
\* filter, or two filters, are set together
RenderInitTwo ==
    /\ snapshot \in Snapshots
    /\ now \in Instants
    /\ ui = DefaultUi
    /\ out = RenderPass(snapshot, now, ui)
    /\ budget = MaxInteractions + 1
    /\ MetricsIdle /\ DeltaIdle /\ PeriodIdle /\ AbIdle /\ LiftIdle /\ CacheIdle

SpecRenderTwo == RenderInitTwo /\ [][RenderNext]_vars

---------------------------------------------------------------------------
(* SpecAb: calculate_ab_stats and one round of the loop over tests applied *)
(* to every frame over a small table, reached by inserting and dropping   *)
(* rows.  The table always has the six columns calculate_metrics reads.   *)

\* index labels of a frame handed to calculate_ab_stats are 0..MaxAbRows-1
MaxAbRows == 3

\* the values of the variant column: the two canonical labels, another
\* label, and no value
VariantValues == {"control", "test", "holdout", Null}

\* a session of each variant that read the page, with and without a Buy click
AbRecords ==
    { [hero_variant |-> v, time_on_site_sec |-> 20, scroll_depth_pct |-> 30,
       clicks_total |-> c, clicked_buy |-> c, initiated_checkout |-> 0,
       purchased |-> 0] : v \in VariantValues, c \in {0, 1} }

\* the table with and without the variant column
AbColumnSets == { MetricCols \cup {"hero_variant"}, MetricCols }

AbRowsOver(cols) == { [c \in cols |-> r[c]] : r \in AbRecords }

AbInit ==
    /\ \E cols \in AbColumnSets : adf = [cols |-> cols, rows |-> << >>]
    /\ ares = calculate_ab_stats(adf, "hero_variant")
    /\ asec = TestSection(ares)
    /\ aop = "init"
    /\ MetricsIdle /\ DeltaIdle /\ PeriodIdle /\ RenderIdle /\ LiftIdle /\ CacheIdle

\* a frame with one more row of the table
AbInsertRecord ==
    \E i \in (0 .. MaxAbRows - 1) \ DOMAIN adf.rows, r \in AbRowsOver(adf.cols) :
        /\ adf' = [adf EXCEPT !.rows = [j \in (DOMAIN adf.rows) \cup {i} |->
                                          IF j = i THEN r ELSE adf.rows[j]]]
        /\ ares' = calculate_ab_stats(adf', "hero_variant")
        /\ asec' = TestSection(ares')
        /\ aop' = "insert"
        /\ UNCHANGED <<mvars, dvars, pvars, rvars, lvars, cvars>>

\* a frame with one row less
AbDropRecord ==
    \E i \in DOMAIN adf.rows :
        /\ adf' = [adf EXCEPT !.rows = [j \in (DOMAIN adf.rows) \ {i} |-> adf.rows[j]]]
        /\ ares' = calculate_ab_stats(adf', "hero_variant")
        /\ asec' = TestSection(ares')
        /\ aop' = "drop"
        /\ UNCHANGED <<mvars, dvars, pvars, rvars, lvars, cvars>>

AbNext == AbInsertRecord \/ AbDropRecord

SpecAb == AbInit /\ [][AbNext]_vars

---------------------------------------------------------------------------
(* SpecLift: the lift and the winner callout applied to pairs of click    *)
(* rates                                                                 *)

\* click rates in percent: none, the rates of the 10/100 against 16/100
\* example, rates 5% apart in both directions of 20, and others
LiftRates == { R(0), R(5), R(10), R(16), R(19), R(20), R(21), R(40), R(50),
               Rat(100, 3), R(100) }

LiftInit ==
    /\ largs = << >>
    /\ lres = << >>
    /\ MetricsIdle /\ DeltaIdle /\ PeriodIdle /\ RenderIdle /\ AbIdle /\ CacheIdle

\* the lift of test over control, its callout, and the lift with the two
\* labels exchanged
CallLift ==
    \E control \in LiftRates, test \in LiftRates :
        /\ largs' = <<control, test>>
        /\ lres' = [lift |-> Lift(control, test),
                    winner |-> Winner(Lift(control, test)),
                    swapped |-> Lift(test, control)]
        /\ UNCHANGED <<mvars, dvars, pvars, rvars, avars, cvars>>

LiftNext == CallLift

SpecLift == LiftInit /\ [][LiftNext]_vars

---------------------------------------------------------------------------
(* Claims about calculate_metrics, checked under SpecMetrics *)

MetricsOk == mres.error = "none"
M == mres.metrics
HasCol(c) == c \in mdf.cols
Rows == DOMAIN mdf.rows

\* C2: calculate_metrics on an empty record collection returns, without
\* raising, a PeriodMetrics whose nine fields are all 0.
C2_EmptyAllZero ==
    DfLen(mdf) = 0 =>
        /\ MetricsOk
        /\ DOMAIN M = MetricNames
        /\ \A f \in {"sessions", "total_clicks", "clicked_buy",
                     "initiated_checkout", "purchased", "engaged_sessions"} :
              M[f] = 0
        /\ \A f \in {"median_time", "median_scroll", "bounce_rate"} :
              M[f].n = 0 /\ M[f].d = 1

\* the last row of a frame was dropped and calculate_metrics ran on the
\* empty frame
C2_Witness == mop = "drop" /\ DfLen(mdf) = 0 /\ MetricsOk /\ M.sessions = 0

\* the frame with every absent column added, holding 0 for every record
ZeroFilled(df) ==
    [cols |-> MetricCols,
     rows |-> [i \in DOMAIN df.rows |->
                 [c \in MetricCols |-> IF c \in df.cols THEN df.rows[i][c] ELSE 0]]]

\* C3: calculate_metrics never fails for a non-empty record collection,
\* whichever of the six columns are absent, and an absent column counts as 0
\* for every record (so an absent counter sums to 0).
C3_AbsentColumnsAreZero ==
    DfLen(mdf) > 0 =>
        /\ MetricsOk
        /\ mres = calculate_metrics(ZeroFilled(mdf))

\* C4: for every non-empty record collection the PeriodMetrics returned has
\* 0 <= bounce_rate <= 100 and engaged_sessions <= sessions.
C4_RateAndEngagedBounded ==
    (DfLen(mdf) > 0 /\ MetricsOk) =>
        /\ M.bounce_rate.d > 0
        /\ 0 <= M.bounce_rate.n
        /\ M.bounce_rate.n <= 100 * M.bounce_rate.d
        /\ 0 <= M.engaged_sessions
        /\ M.engaged_sessions <= M.sessions

\* two sessions, one of them a bounce and the other engaged
C4_Witness ==
    /\ MetricsOk
    /\ M.sessions = 2
    /\ M.bounce_rate = R(50)
    /\ M.engaged_sessions = 1

\* the time and scroll value of row i, an absent column counting as 0
TimeOf(i) == IF HasCol("time_on_site_sec") THEN mdf.rows[i].time_on_site_sec ELSE 0
ScrollOf(i) == IF HasCol("scroll_depth_pct") THEN mdf.rows[i].scroll_depth_pct ELSE 0

BounceRows == {i \in Rows : TimeOf(i) = 0 \/ ScrollOf(i) = 0}
EngagedRows == {i \in Rows : TimeOf(i) > 10 /\ ScrollOf(i) > 25}

\* C5: for every non-empty record collection calculate_metrics returns
\* sessions = the number of records, bounce_rate =
\* 100 * #(time_on_site_sec == 0 or scroll_depth_pct == 0) / sessions and
\* engaged_sessions = #(time_on_site_sec > 10 and scroll_depth_pct > 25).
C5_CountsByDefinition ==
    DfLen(mdf) > 0 =>
        /\ MetricsOk
        /\ M.sessions = Cardinality(Rows)
        /\ M.bounce_rate.n * M.sessions = 100 * Cardinality(BounceRows) * M.bounce_rate.d
        /\ M.engaged_sessions = Cardinality(EngagedRows)

\* the three counts are as C5 states them on every frame that holds both the
\* time and the scroll column
CountsOnCompleteFrames ==
    (HasCol("time_on_site_sec") /\ HasCol("scroll_depth_pct")) => C5_CountsByDefinition

\* the time values of frame df that count for median_time
ValidTimes(df) ==
    IF "time_on_site_sec" \in df.cols
    THEN {i \in DOMAIN df.rows :
            0 < df.rows[i].time_on_site_sec /\ df.rows[i].time_on_site_sec <= 1800}
    ELSE {}

\* m is the median of the time values of the rows V of df: at most half of
\* them lie below m, at most half above, and m is midway between the nearest
\* values on either side (0 when V is empty)
IsMedianOf(m, df, V) ==
    LET t(i) == df.rows[i].time_on_site_sec
        below == {i \in V : t(i) * m.d < m.n}
        above == {i \in V : t(i) * m.d > m.n}
        atOrBelow == {i \in V : t(i) * m.d <= m.n}
        atOrAbove == {i \in V : t(i) * m.d >= m.n}
    IN  IF V = {} THEN m = R(0)
        ELSE /\ 2 * Cardinality(below) <= Cardinality(V)
             /\ 2 * Cardinality(above) <= Cardinality(V)
             /\ atOrBelow # {} /\ atOrAbove # {}
             /\ \E lo \in atOrBelow, hi \in atOrAbove :
                  /\ \A i \in atOrBelow : t(i) <= t(lo)
                  /\ \A i \in atOrAbove : t(hi) <= t(i)
                  /\ 2 * m.n = (t(lo) + t(hi)) * m.d

\* the frames before and after the step differ by one row, whose time is 0 or
\* beyond the cap
OutlierRow(df, i) ==
    "time_on_site_sec" \in df.cols
      /\ (df.rows[i].time_on_site_sec = 0 \/ df.rows[i].time_on_site_sec > 1800)

OutlierStep ==
    \/ \E i \in DOMAIN mdf'.rows :
          /\ i \notin DOMAIN mdf.rows
          /\ DOMAIN mdf'.rows = (DOMAIN mdf.rows) \cup {i}
          /\ \A j \in DOMAIN mdf.rows : mdf'.rows[j] = mdf.rows[j]
          /\ OutlierRow(mdf', i)
    \/ \E i \in DOMAIN mdf.rows :
          /\ DOMAIN mdf'.rows = (DOMAIN mdf.rows) \ {i}
          /\ \A j \in DOMAIN mdf'.rows : mdf'.rows[j] = mdf.rows[j]
          /\ OutlierRow(mdf, i)

C6_Step ==
    /\ mres'.error = "none" =>
          IsMedianOf(mres'.metrics.median_time, mdf', ValidTimes(mdf'))
    /\ (OutlierStep /\ mres.error = "none" /\ mres'.error = "none") =>
          mres'.metrics.median_time = mres.metrics.median_time

\* C6: median_time is the median of exactly the records with
\* 0 < time_on_site_sec <= 1800 (0 when there is none), and adding or
\* removing a record whose time is 0 or beyond 1800 never changes it.
C6_MedianOverValidTimes == [][C6_Step]_vars

\* a frame holding a 10 second session and an 1801 second session, reached
\* by inserting one of them: the median is 10
C6_Witness ==
    /\ mop = "insert"
    /\ MetricsOk
    /\ HasCol("time_on_site_sec")
    /\ \E i, j \in Rows :
          mdf.rows[i].time_on_site_sec = 10 /\ mdf.rows[j].time_on_site_sec = 1801
    /\ M.median_time = R(10)

---------------------------------------------------------------------------
(* Claims about calc_delta, checked under SpecDelta *)

\* C7: calc_delta(current, previous) is (current - previous) / previous * 100
\* when previous != 0, so calc_delta(x, x) = 0 for x != 0; it is None, not 0
\* and not an infinite value, when previous = 0.
C7_DeltaLaw ==
    Len(dargs) = 2 =>
        LET c == dargs[1]
            p == dargs[2]
        IN  /\ p.n = 0 => dres = None
            /\ p.n # 0 =>
                 /\ Len(dres) = 1
                 /\ dres[1].d > 0
                 /\ dres[1].n * c.d * p.n = 100 * dres[1].d * (c.n * p.d - p.n * c.d)
                 /\ (c = p => dres[1].n = 0)

\* calc_delta(3, 0) was called and returned None
C7_Witness == Len(dargs) = 2 /\ dargs[1] = R(3) /\ dargs[2] = R(0) /\ dres = None

---------------------------------------------------------------------------
(* Claims about the period windows, checked under SpecPeriod *)

Resolved == Len(pargs) = 3
current_start == pres[1]
current_end == pres[2]
prev_start == pres[3]
prev_end == pres[4]

\* C8 as stated: for Today, Last 7 Days and Last 30 Days the comparison
\* window ends where the current window starts and both windows have the
\* same length.
C8_AdjacentEqualLength ==
    (Resolved /\ pargs[3] \in {"Today", "Last 7 Days", "Last 30 Days"}) =>
        /\ prev_end = current_start
        /\ prev_end - prev_start = current_end - current_start

\* C8 amended: for Today, Last 7 Days and Last 30 Days the comparison window
\* ends where the current window starts; for Last 7 Days and Last 30 Days both
\* windows are 7 and 30 days long; for Today the comparison window is the
\* whole prior calendar day while the current window runs from midnight to
\* now, which is less than a day.
C8_AdjacentPriorDay ==
    (Resolved /\ pargs[3] \in {"Today", "Last 7 Days", "Last 30 Days"}) =>
        /\ prev_end = current_start
        /\ current_end = pargs[1]
        /\ pargs[3] = "Last 7 Days" =>
             prev_end - prev_start = Days(7) /\ current_end - current_start = Days(7)
        /\ pargs[3] = "Last 30 Days" =>
             prev_end - prev_start = Days(30) /\ current_end - current_start = Days(30)
        /\ pargs[3] = "Today" =>
             /\ prev_end - prev_start = Days(1)
             /\ current_start % TicksPerDay = 0
             /\ 0 <= current_end - current_start
             /\ current_end - current_start < Days(1)

\* Today resolved one tick after midnight: the current window is one tick
\* long, the comparison window a day
C8_Witness ==
    /\ Resolved
    /\ pargs[3] = "Today"
    /\ current_end - current_start = 1
    /\ prev_end = current_start
    /\ prev_end - prev_start = Days(1)

---------------------------------------------------------------------------
(* Claims about the render pass, checked under SpecRender *)

\* C1: when the dataset is empty the pass shows the single notice
\* "No data available" and stops there: no windows are computed and neither
\* calculate_metrics nor calculate_ab_stats is reached.
C1_EmptyDatasetStops ==
    snapshot = << >> =>
        /\ out.notices = <<"No data available">>
        /\ out.stopped
        /\ out.error = "none"
        /\ out.windows = None
        /\ out.reached = {}
        /\ out.metrics = None /\ out.prev_metrics = None

\* the page was loaded again on an empty dataset and the pass stopped with
\* the notice
C1_Witness ==
    /\ snapshot = << >>
    /\ now = Epoch + 1
    /\ out.stopped
    /\ out.notices = <<"No data available">>

StartedAt(i) == snapshot[i].started_at

\* C9: both windows are half-open: the current window holds exactly the
\* sessions with current_start <= started_at < current_end (a session started
\* at current_end is left out) and the comparison window exactly those with
\* prev_start <= started_at < prev_end.
C9_HalfOpenWindows ==
    out.windows # None =>
        LET w == out.windows[1]
        IN  /\ out.period_rows =
                 {i \in DOMAIN snapshot : w[1] <= StartedAt(i) /\ StartedAt(i) < w[2]}
            /\ out.prev_window_rows =
                 {i \in DOMAIN snapshot : w[3] <= StartedAt(i) /\ StartedAt(i) < w[4]}

\* C10: under All Time the current window starts at the earliest started_at
\* of the dataset and the three engagement deltas are None, whatever the
\* values of the comparison window and whether or not compare is ticked.
C10_AllTimeNoDeltas ==
    (ui.period = "All Time" /\ snapshot # << >>) =>
        /\ ~out.stopped
        /\ out.windows # None
        /\ \A i \in DOMAIN snapshot : out.windows[1][1] <= StartedAt(i)
        /\ \E i \in DOMAIN snapshot : out.windows[1][1] = StartedAt(i)
        /\ out.delta = NoDeltas
        /\ out.shown = NoDeltas
        /\ \A c \in {R(0), R(2)}, p \in {R(0), R(1), Rat(1, 2)} :
              EngagementDelta(c, p, ui) = None

\* All Time with compare ticked, after the bot filter was switched off, on
\* two sessions a week apart: the window starts at the older one
C10_Witness ==
    /\ ui.period = "All Time" /\ ui.compare /\ ~ui.exclude_bots
    /\ DOMAIN snapshot = {0, 1}
    /\ StartedAt(0) = Epoch /\ StartedAt(1) = Epoch - Days(7)
    /\ out.windows = Some(<<Epoch - Days(7), now, Epoch - Days(7), Epoch - Days(7)>>)
    /\ out.delta = NoDeltas

---------------------------------------------------------------------------
(* Claims about calculate_ab_stats and the loop over tests, checked under *)
(* SpecAb                                                                 *)

AbRows == DOMAIN adf.rows
HasVariantCol == "hero_variant" \in adf.cols

\* the rows of adf whose variant is v, and the first of them
RowsOfVariant(v) == {i \in AbRows : adf.rows[i].hero_variant = v}
FirstRowOf(v) == CHOOSE i \in RowsOfVariant(v) : \A j \in RowsOfVariant(v) : i <= j

\* the distinct non-null variants of adf
VariantsPresent ==
    IF HasVariantCol THEN {adf.rows[i].hero_variant : i \in AbRows} \ {Null} ELSE {}

\* C11: calculate_ab_stats returns None iff the field is absent or the
\* collection is empty; otherwise one row per distinct non-null value of the
\* field, in order of first appearance, each carrying the calculate_metrics
\* summary of the records with that value and
\* click_rate = clicked_buy / sessions * 100.
C11_AbStatsPerVariant ==
    /\ ares.error = "none"
    /\ ares.stats = None <=> (~HasVariantCol \/ AbRows = {})
    /\ ares.stats # None =>
         LET st == ares.stats[1]
         IN  /\ Len(st) = Cardinality(VariantsPresent)
             /\ {st[k].variant : k \in 1 .. Len(st)} = VariantsPresent
             /\ \A k, j \in 1 .. Len(st) :
                  k < j => FirstRowOf(st[k].variant) < FirstRowOf(st[j].variant)
             /\ \A k \in 1 .. Len(st) :
                  LET of == RowsOfVariant(st[k].variant)
                      m == calculate_metrics(
                             [cols |-> adf.cols, rows |-> [i \in of |-> adf.rows[i]]]).metrics
                  IN  /\ st[k].sessions = Cardinality(of)
                      /\ st[k].clicked_buy =
                           Cardinality({i \in of : adf.rows[i].clicked_buy = 1})
                      /\ st[k].click_rate.n * st[k].sessions
                           = 100 * st[k].clicked_buy * st[k].click_rate.d
                      /\ st[k].median_time = m.median_time
                      /\ st[k].median_scroll = m.median_scroll
                      /\ st[k].bounce_rate = m.bounce_rate
                      /\ st[k].engaged = m.engaged_sessions

\* a frame whose rows are test, control, test and null-free, reached by an
\* insertion: two rows, test first, the test row counting two sessions of
\* which one clicked Buy
C11_Witness ==
    /\ aop = "insert"
    /\ HasVariantCol
    /\ AbRows = {0, 1, 2}
    /\ adf.rows[0].hero_variant = "test" /\ adf.rows[0].clicked_buy = 1
    /\ adf.rows[1].hero_variant = "control"
    /\ adf.rows[2].hero_variant = "test" /\ adf.rows[2].clicked_buy = 0
    /\ ares.stats # None
    /\ Len(ares.stats[1]) = 2
    /\ ares.stats[1][1].variant = "test"
    /\ ares.stats[1][1].click_rate = R(50)

\* the click rate in percent of the rows of variant v, from the rows
RateOfVariant(v) ==
    Rat(100 * Cardinality({i \in RowsOfVariant(v) : adf.rows[i].clicked_buy = 1}),
        Cardinality(RowsOfVariant(v)))

BothLabelsPresent == {"control", "test"} \subseteq VariantsPresent

\* C12: when both "control" and "test" are present,
\* lift = (test.click_rate - control.click_rate) / control.click_rate * 100 if
\* control.click_rate > 0 and 0 otherwise; control 10/100 and test 16/100
\* give 60.
C12_LiftFormula ==
    /\ Lift(R(10), R(16)) = R(60)
    /\ BothLabelsPresent =>
         /\ asec.lift # None
         /\ LET c == RateOfVariant("control")
                t == RateOfVariant("test")
                l == asec.lift[1]
            IN  /\ c.n > 0 => /\ l.d > 0
                              /\ l.n * c.n * t.d = 100 * l.d * (t.n * c.d - c.n * t.d)
                /\ c.n = 0 => l = R(0)

\* two control sessions of which one clicked Buy and a test session that
\* did: click rates 50 and 100, lift 100
C12_Witness ==
    /\ BothLabelsPresent
    /\ RateOfVariant("control") = R(50)
    /\ RateOfVariant("test") = R(100)
    /\ asec.lift = Some(R(100))

\* C13: when fewer than two distinct variant values are present, or
\* "control" and "test" are not both among them, no lift is computed, no
\* winner is classified, and the test shows an inline "insufficient data"
\* label instead of being left out silently.
C13_InsufficientDataLabel ==
    (Cardinality(VariantsPresent) < 2 \/ ~BothLabelsPresent) =>
        /\ asec.lift = None
        /\ asec.winner = None
        /\ \E k \in 1 .. Len(asec.rendered) : asec.rendered[k] = "insufficient data"

\* without both labels no lift is computed and no winner classified
NoLiftWithoutBothLabels ==
    (Cardinality(VariantsPresent) < 2 \/ ~BothLabelsPresent) =>
        asec.lift = None /\ asec.winner = None

---------------------------------------------------------------------------
\* Claims about the lift and the winner callout, checked under SpecLift

Called == Len(largs) = 2

\* C14: exactly one winner per lift: "test winning" iff lift > 5, "control
\* winning" iff lift < -5, "no clear winner" iff -5 <= lift <= 5.
C14_WinnerThresholds ==
    Called =>
        LET l == lres.lift
            w == lres.winner
        IN  /\ l.d > 0
            /\ w \in {"test winning", "control winning", "no clear winner"}
            /\ (w = "test winning") <=> (l.n > 5 * l.d)
            /\ (w = "control winning") <=> (l.n < (-5) * l.d)
            /\ (w = "no clear winner") <=> ((-5) * l.d <= l.n /\ l.n <= 5 * l.d)

\* click rates 20 and 21: a lift of exactly 5 is no clear winner
C14_Witness ==
    /\ largs = <<R(20), R(21)>>
    /\ lres.lift = R(5)
    /\ lres.winner = "no clear winner"

\* C15: for two groups whose click rates are both > 0, exchanging the
\* "control" and "test" labels negates the sign of the lift: lift(a, b) > 0
\* iff lift(b, a) < 0, and lift(a, b) = 0 iff lift(b, a) = 0.
C15_SwapNegatesSign ==
    (Called /\ largs[1].n > 0 /\ largs[2].n > 0) =>
        /\ lres.lift.d > 0 /\ lres.swapped.d > 0
        /\ (lres.lift.n > 0) <=> (lres.swapped.n < 0)
        /\ (lres.lift.n = 0) <=> (lres.swapped.n = 0)

\* click rates 10 and 16: lift 60 one way round, -37.5 the other
C15_Witness ==
    /\ largs = <<R(10), R(16)>>
    /\ lres.lift = R(60)
    /\ lres.swapped = Rat(-75, 2)

---------------------------------------------------------------------------
\* fetch_all_sessions behind @st.cache_data(ttl=15), over a sequence of
\* script runs.  db is the version of the session table (the instrumentation
\* pipeline writes to it), clock the time in seconds, cache the memoized
\* entry (the snapshot and the time it was fetched), served the snapshot the
\* last run worked on, queries the number of queries sent to the table.

TTL == 15

SleepSeconds == 15

MaxClock == 20

MaxWrites == 2

MaxPasses == 3

\* the entry of the TTL cache is live while now < fetched + ttl
Fresh_Forever(c, t) == c # None

Fresh(c, t) == c # None /\ t - c[1].at < TTL

\* one call of the memoized function at time t
fetch_all_sessions(c, t) ==
    IF Fresh(c, t)
    THEN [cache |-> c, snap |-> c[1].snap, queried |-> FALSE]
    ELSE [cache |-> Some([at |-> t, snap |-> db]), snap |-> db, queried |-> TRUE]

PassCount == IF served = None THEN 0 ELSE served[1].n

CacheInit ==
    /\ MetricsIdle /\ DeltaIdle /\ PeriodIdle /\ RenderIdle /\ AbIdle /\ LiftIdle
    /\ CacheIdle

\* time passes
Tick ==
    /\ clock < MaxClock
    /\ clock' = clock + 1
    /\ UNCHANGED <<db, cache, served, queries>>
    /\ UNCHANGED <<mvars, dvars, pvars, rvars, avars, lvars>>

\* the pipeline records a session
DbWrite ==
    /\ db < MaxWrites
    /\ db' = db + 1
    /\ UNCHANGED <<cache, clock, served, queries>>
    /\ UNCHANGED <<mvars, dvars, pvars, rvars, avars, lvars>>

\* one run of the script: the fetch at its start and, when the auto-refresh
\* box is ticked, the sleep at its end (the rerun is the next Pass)
Pass ==
    \E auto_refresh \in BOOLEAN :
        /\ PassCount < MaxPasses
        /\ auto_refresh => clock + SleepSeconds <= MaxClock
        /\ LET f == fetch_all_sessions(cache, clock)
           IN  /\ cache' = f.cache
               /\ served' = Some([n |-> PassCount + 1, snap |-> f.snap, hit |-> ~f.queried])
               /\ queries' = IF f.queried THEN queries + 1 ELSE queries
        /\ clock' = IF auto_refresh THEN clock + SleepSeconds ELSE clock
        /\ db' = db
        /\ UNCHANGED <<mvars, dvars, pvars, rvars, avars, lvars>>

CacheNext == Tick \/ DbWrite \/ Pass

SpecCache == CacheInit /\ [][CacheNext]_vars

\* a step in which the script ran
PassStep == served' # served

C17_Step ==
    /\ ~PassStep => cache' = cache /\ queries' = queries
    /\ PassStep =>
         /\ (cache # None /\ clock - cache[1].at < TTL) =>
                /\ cache' = cache
                /\ queries' = queries
                /\ served'[1].snap = cache[1].snap
         /\ (cache = None \/ clock - cache[1].at > TTL) =>
                /\ queries' = queries + 1
                /\ served'[1].snap = db
                /\ cache' = Some([at |-> clock, snap |-> db])

\* C17: the fetch is memoized for 15 seconds: a run that starts within the
\* TTL of the last real fetch works on that snapshot and sends no query, a
\* run after the TTL has expired fetches anew, and nothing else (time
\* passing, a write to the table) changes the cached snapshot.
C17_TtlMemo == [][C17_Step]_vars

\* a second fetch after the first expired, then a run that reuses it although
\* the table has changed since
C17_Witness ==
    /\ served # None
    /\ served[1].hit
    /\ served[1].snap # db
    /\ queries = 2

---------------------------------------------------------------------------
\* Claims about the engagement cards, checked under SpecRender

\* the previous-period value of metric k
PrevValue(k) ==
    IF k = "sessions" THEN R(out.prev_metrics[1].sessions) ELSE out.prev_metrics[1][k]

ComparisonUndefined(k) ==
    \/ ~ui.compare
    \/ ui.period = "All Time"
    \/ RIsZero(PrevValue(k))

\* C20: for sessions, median time and median scroll the delta handed to the
\* renderer is None iff compare is off, the period is "All Time" or the
\* previous-period value is 0; a defined delta, a delta of exactly 0
\* included, is displayed as a percentage.
C20_DeltaShownIffDefined ==
    (~out.stopped /\ out.metrics # None) =>
        \A k \in {"sessions", "median_time", "median_scroll"} :
            (out.shown[k] = None) <=> ComparisonUndefined(k)

\* the deltas calc_delta returns are None exactly when the comparison is
\* undefined; only the display drops a delta
DeltaNoneIffUndefined ==
    (~out.stopped /\ out.metrics # None) =>
        \A k \in {"sessions", "median_time", "median_scroll"} :
            /\ (out.delta[k] = None) <=> ComparisonUndefined(k)
            /\ (out.shown[k] = None) <=> (out.delta[k] = None \/ out.delta[k] = Some(R(0)))

---------------------------------------------------------------------------
\* Claims about the filters of the two windows, checked under SpecRenderTwo

df_all == classify_version([cols |-> SessionCols, rows |-> snapshot], V2_LAUNCH)

\* the filters the user has selected, as predicates on a session
SelectedByUser(r) ==
    /\ ui.exclude_bots => r.is_bot # "True"
    /\ ui.show_tiktok_only => r.utm_source = "tiktok"
    /\ ui.selected_price # "All Prices" => r.price_shown = ParsePrice(ui.selected_price)
    /\ ui.version_filter = "V2.0 (Outcome-Focused)" => r.version = "V2.0"
    /\ ui.version_filter = "V1.0 (Feature-Focused)" => r.version = "V1.0"
    /\ test_rounds[ui.selected_round] # None =>
          r.hero_test_id = test_rounds[ui.selected_round][1]

\* C19: the current-period and the comparison-period record sets are
\* restricted by the same filter predicates: every filter the user selected
\* (bots, TikTok, price, version, test round) is applied to both windows.
C19_SameFiltersBothWindows ==
    (~out.stopped /\ out.windows # None) =>
        /\ out.filtered_rows = {i \in out.period_rows : SelectedByUser(df_all.rows[i])}
        /\ out.prev_rows = {i \in out.prev_window_rows : SelectedByUser(df_all.rows[i])}

\* the current window gets every selected filter
CurrentWindowFiltered ==
    (~out.stopped /\ out.windows # None) =>
        out.filtered_rows = {i \in out.period_rows : SelectedByUser(df_all.rows[i])}

---------------------------------------------------------------------------
\* Claims about zero denominators, checked under SpecRender

\* every delta or rate the pass hands to the renderer
RatesRendered ==
    {out.delta[k][1] : k \in {k \in DOMAIN out.delta : out.delta[k] # None}}
    \cup {v[2] : v \in out.version_cmp.values}
    \cup {out.engaged_rate}
    \cup UNION {{b.ctr, b.checkout_rate, b.engaged_rate} : b \in out.trend}

\* C16: in every pass, every delta or rate whose denominator is zero (period
\* deltas, version-comparison CTR relative improvement, trend CTR, checkout
\* rate and engaged rate) is recovered as "no comparison" or a default; none
\* reaches the renderer as the result of a division by zero, NaN or an
\* infinite value.
C16_NoDivisionByZero ==
    ~out.stopped => \A x \in RatesRendered : Finite(x)

\* all rates but the relative improvement of the version callout are finite
OnlyRelativeImprovementDiverges ==
    ~out.stopped =>
        \A x \in RatesRendered :
            ~Finite(x) => /\ x = Inf
                          /\ <<"relative improvement", Inf>> \in out.version_cmp.values
                          /\ <<"ctr_v1", R(0)>> \in out.version_cmp.values

---------------------------------------------------------------------------
\* Claims about the fetched snapshot, checked under SpecRender

\* the frame fetch_all_sessions returned to the last pass
FetchedFrame == [cols |-> IF snapshot = << >> THEN {} ELSE SessionCols, rows |-> snapshot]

\* C18: within a pass the fetched snapshot is never mutated: the version
\* classification, the filters, the aggregations and the chart and table
\* preparation work on copies or selections, so the frame fetch_all_sessions
\* returned has the same rows, columns and values at the end of the pass as
\* when it was fetched.
C18_SnapshotNotMutated == out.fetched_after = FetchedFrame

\* a pass that classified two sessions, filtered them and prepared the trend
\* frames and the table of recent sessions
C18_Witness ==
    /\ ~out.stopped
    /\ Cardinality(out.filtered_rows) = 2
    /\ out.trend # {}
    /\ "version" \notin out.fetched_after.cols
    /\ out.fetched_after.rows = snapshot

---------------------------------------------------------------------------
\* Claims about the overlap of the two windows, checked under SpecRender

\* C21: for every period and every instant no session is counted both in
\* the current-period metrics and in the comparison-period metrics: the
\* rows selected by the current window and those selected by the comparison
\* window are disjoint, and under "All Time" the comparison window is empty.
C21_WindowsDisjoint ==
    out.windows # None =>
        /\ out.period_rows \cap out.prev_window_rows = {}
        /\ out.filtered_rows \cap out.prev_rows = {}
        /\ out.metrics[1].sessions + out.prev_metrics[1].sessions
             <= Cardinality(DOMAIN snapshot)
        /\ ui.period = "All Time" => out.prev_window_rows = {}

\* a session started exactly at current_start, where the windows meet, with
\* another one in the comparison window
C21_Witness ==
    /\ out.windows # None
    /\ ui.period # "All Time"
    /\ \E i \in out.period_rows : StartedAt(i) = out.windows[1][1]
    /\ out.windows[1][4] = out.windows[1][1]
    /\ out.prev_window_rows # {}

---------------------------------------------------------------------------
\* Claims about bounce and engaged together, checked under SpecMetrics

\* C22: bounce and engaged exclude each other: no record is counted both as
\* a bounce and as engaged, so in every PeriodMetrics returned
\* bounce_rate / 100 * sessions + engaged_sessions <= sessions.
C22_BounceEngagedExclusive ==
    MetricsOk =>
        /\ M.bounce_rate.d > 0
        /\ M.bounce_rate.n * M.sessions + 100 * M.bounce_rate.d * M.engaged_sessions
             <= 100 * M.bounce_rate.d * M.sessions

\* a session that stayed long without scrolling, counted as a bounce only,
\* next to an engaged one: the two counts fill the sessions exactly
C22_Witness ==
    /\ MetricsOk
    /\ HasCol("time_on_site_sec") /\ HasCol("scroll_depth_pct")
    /\ DfLen(mdf) = 2
    /\ \E i \in Rows : TimeOf(i) > 10 /\ ScrollOf(i) = 0
    /\ M.engaged_sessions = 1
    /\ M.bounce_rate = R(50)

---------------------------------------------------------------------------
\* Claims about the rows of calculate_ab_stats as a partition, checked
\* under SpecAb

\* the rows of adf with a non-null variant
NonNullRows == {i \in AbRows : adf.rows[i].hero_variant # Null}

\* C23: calculate_ab_stats partitions the records with a non-null variant:
\* every returned row has sessions >= 1, the variants of the rows are
\* pairwise distinct, the sessions (and clicked_buy) of the rows add up to
\* the number (and clicked_buy sum) of the records with a non-null variant,
\* and a record with a null variant is counted in no row.
C23_RowsPartitionNonNull ==
    ares.stats # None =>
        LET st == ares.stats[1]
            K == 1 .. Len(st)
        IN  /\ \A k \in K : st[k].sessions >= 1 /\ st[k].variant # Null
            /\ \A k, j \in K : k # j => st[k].variant # st[j].variant
            /\ SumOver([k \in K |-> st[k].sessions], K) = Cardinality(NonNullRows)
            /\ SumOver([k \in K |-> st[k].clicked_buy], K)
                 = SumOver([i \in AbRows |-> adf.rows[i].clicked_buy], NonNullRows)

\* three records, one of them with a null variant and a Buy click: two rows
\* counting two sessions and no click
C23_Witness ==
    /\ ares.stats # None
    /\ Cardinality(AbRows) = 3
    /\ \E i \in AbRows : adf.rows[i].hero_variant = Null /\ adf.rows[i].clicked_buy = 1
    /\ Len(ares.stats[1]) = 2
    /\ \A k \in 1 .. 2 : ares.stats[1][k].sessions = 1 /\ ares.stats[1][k].clicked_buy = 0

===========================================================================
